---- MODULE Spec2Model ----
(***************************************************************************)
(* Build progress and notification loop of build-bot: utils.BuildRunner,  *)
(* utils.upload_artifacts / upload_all, the Telegram helpers and the       *)
(* SIGINT handler, with build-rom.py main as the caller.                   *)
(*                                                                         *)
(* Text is modelled as sequences of one-character strings.  A log line is  *)
(* kept without its trailing newline: "." of the progress regex never      *)
(* matches the newline and the closing "]" has to come before it.          *)
(***************************************************************************)
EXTENDS Integers, Sequences, FiniteSets, TLC

\* ------------------------------------------------------------------ bounds

\* Longest child output (number of lines) drawn in Init.
MaxLines == 2

\* Value of time.time() when BuildRunner.run starts (any value above the window).
Epoch == 100

\* --------------------------------------------------------- program constants

\* utils.py:108 / utils.py:132  "now - last_update > 15"
CadenceWindow == 15

\* utils.py:250  retries=3
Retries == 3

\* utils.py:20-22, enforced non-empty for build-rom.py by build-rom.py:17
BOT_TOKEN == "token"

CHAT_ID == "chat"

ERROR_CHAT_ID == "errchat"

\* -------------------------------------------------------------------- text

Digits == {"0", "1", "2", "3", "4", "5", "6", "7", "8", "9"}

Spaces == {" ", "\t"}

MARKER ==
    <<"S", "t", "a", "r", "t", "i", "n", "g", " ", "n", "i", "n", "j", "a", ".", ".", ".">>

REMAINING ==
    <<"r", "e", "m", "a", "i", "n", "i", "n", "g">>

SP_REMAINING ==
    <<" ", "r", "e", "m", "a", "i", "n", "i", "n", "g">>

\* s has t as a substring starting at position i
OccursAt(s, t, i) ==
    /\ i >= 1
    /\ i + Len(t) - 1 <= Len(s)
    /\ \A k \in 1..Len(t) : s[i + k - 1] = t[k]

\* Python's  t in s
Contains(s, t) ==
    \E i \in 1..(Len(s) + 1) : OccursAt(s, t, i)

\* first position >= i of s that does not hold a character of set cs
RunEnd(s, cs, i) ==
    IF \E j \in i..Len(s) : s[j] \notin cs
    THEN CHOOSE j \in i..Len(s) :
            /\ s[j] \notin cs
            /\ \A k \in i..(j - 1) : s[k] \in cs
    ELSE Len(s) + 1

\* position of the last "]" of s, 0 when there is none
LastBracket(s) ==
    IF \E j \in 1..Len(s) : s[j] = "]"
    THEN CHOOSE j \in 1..Len(s) : s[j] = "]" /\ \A k \in (j + 1)..Len(s) : s[k] # "]"
    ELSE 0

\* first position >= i at which t occurs in s, 0 when there is none
FindFrom(s, t, i) ==
    IF \E j \in i..Len(s) : OccursAt(s, t, j)
    THEN CHOOSE j \in i..Len(s) :
            /\ OccursAt(s, t, j)
            /\ \A k \in i..(j - 1) : ~OccursAt(s, t, k)
    ELSE 0

NoMatch == [matched |-> FALSE, pct |-> <<>>, cnt |-> <<>>, has_tl |-> FALSE, time_left |-> <<>>]

\* The optional group "(?: (.*?remaining))?" tried at position e, followed by ".*\]":
\* a space, the shortest text ending in "remaining", and a "]" somewhere after it.
EtaGroup(s, e) ==
    LET k == IF e <= Len(s) /\ s[e] = " " THEN FindFrom(s, REMAINING, e + 1) ELSE 0
    IN  IF k > 0 /\ LastBracket(s) >= k + Len(REMAINING)
        THEN [has_tl |-> TRUE, time_left |-> SubSeq(s, e + 1, k + Len(REMAINING) - 1)]
        ELSE [has_tl |-> FALSE, time_left |-> <<>>]

\* The regex  \[\s*(\d+%)\s+(\d+/\d+)(?: (.*?remaining))?.*\]  anchored at position i.
\* Every quantifier before the optional group is followed by a character its own
\* class excludes, so the greedy choice is the only one backtracking can end with.
MatchAt(s, i) ==
    LET a == RunEnd(s, Spaces, i + 1)
        b == RunEnd(s, Digits, a)
        c == RunEnd(s, Spaces, b + 1)
        d == RunEnd(s, Digits, c)
        e == RunEnd(s, Digits, d + 1)
    IN  IF /\ i <= Len(s) /\ s[i] = "["
           /\ b > a /\ b <= Len(s) /\ s[b] = "%"
           /\ c > b + 1
           /\ d > c /\ d <= Len(s) /\ s[d] = "/"
           /\ e > d + 1
           /\ LastBracket(s) >= e
        THEN [matched |-> TRUE,
              pct |-> SubSeq(s, a, b),
              cnt |-> SubSeq(s, c, e - 1),
              has_tl |-> EtaGroup(s, e).has_tl,
              time_left |-> EtaGroup(s, e).time_left]
        ELSE NoMatch

\* regex.search(line_out): the match at the leftmost position that has one
RegexSearch(s) ==
    IF \E i \in 1..Len(s) : MatchAt(s, i).matched
    THEN MatchAt(s, CHOOSE i \in 1..Len(s) :
                        /\ MatchAt(s, i).matched
                        /\ \A k \in 1..(i - 1) : ~MatchAt(s, k).matched)
    ELSE NoMatch

\* str.replace(old, ""): every non-overlapping occurrence of old removed, left to right
RECURSIVE Remove(_, _)
Remove(s, old) ==
    IF Len(s) = 0 THEN <<>>
    ELSE IF OccursAt(s, old, 1)
         THEN Remove(SubSeq(s, Len(old) + 1, Len(s)), old)
         ELSE <<s[1]>> \o Remove(SubSeq(s, 2, Len(s)), old)

\* str.strip(): leading and trailing whitespace removed
Strip(s) ==
    LET lo == RunEnd(s, Spaces, 1)
        hi == IF \E j \in 1..Len(s) : s[j] \notin Spaces
              THEN CHOOSE j \in 1..Len(s) :
                      s[j] \notin Spaces /\ \A k \in (j + 1)..Len(s) : s[k] \in Spaces
              ELSE 0
    IN  IF hi = 0 THEN <<>> ELSE SubSeq(s, lo, hi)

\* a plausible slip: the word is removed with or without the space before it
CleanTimeAnyRemaining(time_left) ==
    Strip(Remove(time_left, REMAINING))

\* clean_time = time_left.replace(" remaining", "").strip()
CleanTime(time_left) ==
    Strip(Remove(time_left, SP_REMAINING))

\* ------------------------------------------------------------ child output

LineNinjaBanner ==
    <<"S", "t", "a", "r", "t", "i", "n", "g", " ", "n", "i", "n", "j", "a", ".", ".", ".">>

LineEtaAfter ==
    <<"[", " ", "4", "5", "%", " ", "1", "2", "0", "0", "/", "2", "6", "6", "9", " ", "r", "e", "m", "a", "i", "n", "i", "n", "g", ":", " ", "1", "2", " ", "m", "i", "n", "s", "]">>

LineEtaBefore ==
    <<"[", " ", "4", "6", "%", " ", "1", "2", "0", "1", "/", "2", "6", "6", "9", " ", "3", "m", " ", "r", "e", "m", "a", "i", "n", "i", "n", "g", "]", " ", "c", "c">>

LineNoEta ==
    <<"[", " ", "1", "0", "%", " ", "1", "/", "1", "0", "]">>

LineNoise ==
    <<"c", "c", " ", "f", "o", "o", ".", "c">>

\* The lines a child is drawn from; a child's output is a sequence of indices into it.
LineTable == <<LineNinjaBanner, LineEtaAfter, LineEtaBefore, LineNoEta, LineNoise>>

LineIds == 1..Len(LineTable)

\* a progress line whose ETA text holds a character of the markup
LineEtaMarkup ==
    <<"[", " ", "7", "%", " ", "3", "/", "4", "0", " ", "<", "1", "m", " ",
      "r", "e", "m", "a", "i", "n", "i", "n", "g", "]">>

\* every line a child is made to write in some specification
Lines == Append(LineTable, LineEtaMarkup)

Outputs == UNION {[1..n -> LineIds] : n \in 0..MaxLines}

\* Seconds that pass while the loop blocks on the next line of the child.
Delays == {8, 16}

\* ------------------------------------------------------------------- state

VARIABLES
    is_rom,             \* BuildRunner.is_rom
    use_gofile,         \* config.USE_GOFILE
    pc,                 \* position of the main thread
    handler,            \* the SIGINT handler of register_signal_handler is installed
    process,            \* BuildRunner.process: "None" or "child"
    child,              \* the child process: none, running, exited, terminated, killed
    produced,           \* every line the child writes, in the order it writes them
    out,                \* lines of the child not yet consumed
    stdout,             \* lines mirrored to sys.stdout
    log,                \* lines written to the log file
    logOpen,            \* the log file is open
    msg_id,             \* BuildRunner.msg_id / msg_id of main; 0 is None
    remoteMsgs,         \* status messages sendMessage has created at the remote end
    clock,              \* time.time()
    start_time,         \* start_time of BuildRunner.run
    last_update,        \* last_update of BuildRunner.run
    ninja_started,      \* ninja_started of BuildRunner.run
    return_code,        \* return_code of BuildRunner.run; -1 before it is set
    error_log_exists,   \* os.path.exists("out/error.log") once the loop has ended
    fault,              \* what went wrong outside the notifier: none, spawn, loop
    tgFailed,           \* some call of tg_req has returned {} after its attempts
    calls,              \* send_msg / edit_msg / send_doc calls made, in order
    files_to_upload,    \* labels of the (label, file_path) pairs given to upload_artifacts
    fidx,               \* index in files_to_upload of the file being processed
    tasks,              \* futures of the executor of upload_all, per provider
    uploads,            \* results dict of upload_all
    buttons_list,       \* buttons_list of upload_artifacts
    main_file_uploaded, \* main_file_uploaded of upload_artifacts
    attempts,           \* per file index: what each provider returned, or that it was skipped
    interrupted,        \* SIGINT was delivered to the handler
    sig,                \* what the handler found when it ran
    exitCode,           \* exit status of the program; -1 while it runs
    info,               \* ROM_NAME, DEVICE, ANDROID_VERSION, BUILD_ID, REAL_VARIANT
    argv,               \* the command line of build-rom.py: its --sync and --clean flags
    env,                \* the configuration variables that are set in the environment
    tg                  \* one call of tg_req followed attempt by attempt

vars ==
    <<is_rom, use_gofile, pc, handler, process, child, produced, out, stdout, log, logOpen,
      msg_id, remoteMsgs, clock, start_time, last_update, ninja_started, return_code,
      error_log_exists, fault, tgFailed, calls, files_to_upload, fidx, tasks, uploads,
      buttons_list, main_file_uploaded, attempts, interrupted, sig, exitCode, info, argv,
      env, tg>>

\* what BuildRunner.run and upload_artifacts only read, or have no part in
auxVars ==
    <<info, argv, env, tg>>

runVars ==
    <<process, child, produced, out, stdout, log, logOpen, clock, start_time, last_update,
      ninja_started, return_code, error_log_exists, fault>>

uploadVars ==
    <<files_to_upload, fidx, tasks, uploads, buttons_list, main_file_uploaded, attempts>>

NoStats == [pct |-> <<>>, cnt |-> <<>>, has_eta |-> FALSE, eta |-> <<>>]

NoTasks == [p \in {"pd", "gf"} |-> [st |-> "none", link |-> FALSE]]

NoSig == [pc |-> "", child |-> "", process |-> "", ncalls |-> 0]

NoTime == <<>>

\* fmt_time(seconds): hours, minutes, seconds
FmtTime(seconds) ==
    <<seconds \div 3600, (seconds % 3600) \div 60, seconds % 60>>

\* static values without a character that html.escape replaces
PlainInfo ==
    [rom |-> <<"L", "O", "S">>, device |-> <<"p", "x">>, android |-> <<"1", "4">>,
     build_id |-> <<"A", "P", "2">>, type |-> <<"u", "d">>]

\* base_info of build-rom.py main: each value is put between its tags as it is
BaseInfo(v) ==
    [k \in {"rom", "device", "android", "build_id", "type"} |-> v[k]]

\* the text of a send_doc call has no info block
NoInfo ==
    [k \in {"rom", "device", "android", "build_id", "type"} |-> <<>>]

NoArgv == [sync |-> FALSE, clean |-> FALSE]

\* the variables build-rom.py requires before it does anything
ConfigKeys == {"BOT_TOKEN", "CHAT_ID", "DEVICE", "TARGET", "BUILD_VARIANT"}

\* no call of tg_req is being followed
TgIdle == [st |-> "idle", resp |-> <<>>, n |-> 0, posts |-> <<>>, ok |-> FALSE]

\* One call of the notifier, as the caller makes it.  posted: the call reaches tg_req.
\* elapsed: the formatted time the text carries; note: the reason an upload_fail gives.
Call(op, kind, id, chat, posted, stats, src, file, buttons) ==
    [op |-> op, kind |-> kind, id |-> id, chat |-> chat, posted |-> posted, t |-> clock,
     stats |-> stats, src |-> src, file |-> file, buttons |-> buttons,
     elapsed |-> NoTime, note |-> "", base |-> BaseInfo(info)]

\* ---------------------------------------------------------------- Telegram

\* What one POST of tg_req can meet: status 200 with a body; another status; an
\* exception before the request reached the server; an exception after the server
\* acted on it (read timeout, or r.json() raising on the 200 answer).
AttemptOutcomes == {"ok200", "http_err", "exc_lost", "exc_applied"}

Responses == [1..Retries -> AttemptOutcomes]

\* a call of the notifier that returns before tg_req
NoTg == [ok |-> FALSE, attempts |-> 0, applied |-> 0, raised |-> FALSE]

\* the loop of tg_req from attempt n on; every exception is caught, nothing is raised
RECURSIVE TgAttempt(_, _, _)
TgAttempt(resp, n, applied) ==
    IF n > Retries
    THEN [ok |-> FALSE, attempts |-> Retries, applied |-> applied, raised |-> FALSE]
    ELSE IF resp[n] = "ok200"
         THEN [ok |-> TRUE, attempts |-> n, applied |-> applied + 1, raised |-> FALSE]
         ELSE TgAttempt(resp, n + 1, applied + (IF resp[n] = "exc_applied" THEN 1 ELSE 0))

\* a plausible slip: no except clause around the POST, its first exception leaves tg_req
TgReqRaising(resp) ==
    IF BOT_TOKEN = ""
    THEN NoTg
    ELSE IF \E n \in 1..Retries :
                /\ resp[n] \in {"exc_lost", "exc_applied"}
                /\ \A k \in 1..(n - 1) : resp[k] = "http_err"
         THEN [ok |-> FALSE, attempts |-> 1, applied |-> 0, raised |-> TRUE]
         ELSE TgAttempt(resp, 1, 0)

\* tg_req(method, data): resp[n] is what the n-th POST would meet.
TgReq(resp) ==
    IF BOT_TOKEN = ""
    THEN NoTg
    ELSE TgAttempt(resp, 1, 0)

\* what a call that reaches tg_req can come back with
TgOutcomes == {TgReq(resp) : resp \in Responses}

\* tg_req made its attempts and returned {}
TgFailed(r) == r.attempts > 0 /\ ~r.ok

\* send_msg: the message_id of the answer, None (0) without one.  Messages are
\* numbered at the remote end in the order of their creation.
SendMsgId(r, before) ==
    IF CHAT_ID = "" \/ ~r.ok THEN 0 ELSE before + r.applied

\* a plausible slip: the message id is not looked at
EditPostsAnyId(id) ==
    CHAT_ID # ""

\* edit_msg reaches tg_req only with a message id and a chat id
EditPosts(id) ==
    id # 0 /\ CHAT_ID # ""

\* what edit_msg(id, ...) can come back with
EditOutcomes(id) == IF EditPosts(id) THEN TgOutcomes ELSE {NoTg}

\* what send_doc(file, chat) of an existing file can come back with
DocOutcomes(chat) == IF chat # "" THEN TgOutcomes ELSE {NoTg}

Edit(kind, stats, src, buttons) ==
    Call("edit", kind, msg_id, CHAT_ID, EditPosts(msg_id), stats, src, "", buttons)

\* an edit whose text carries the time since start_time, taken at time now
TimedEdit(kind, stats, src, now) ==
    [Edit(kind, stats, src, 0) EXCEPT !.t = now, !.elapsed = FmtTime(now - start_time)]

\* ------------------------------------------------------- BuildRunner.run

\* a plausible slip: a shorter window
CadenceOpenShort(now, last) ==
    now - last > 5

\* now - last_update > 15
CadenceOpen(now, last) ==
    now - last > CadenceWindow

\* a plausible slip: the gate is not consulted
GateOpenAlways(started, rom, ln) ==
    TRUE

\* ninja_started after the marker check of one line
GateOpen(started, rom, ln) ==
    started \/ (rom /\ Contains(ln, MARKER))

\* stats_str of a ROM progress render
ProgressStats(m) ==
    [pct |-> m.pct, cnt |-> m.cnt, has_eta |-> m.has_tl,
     eta |-> IF m.has_tl THEN CleanTime(m.time_left) ELSE <<>>]

\* a plausible slip: out/error.log is preferred in every mode
ErrorLogAnyMode(rom, exists) ==
    IF exists THEN "out/error.log" ELSE "build.log"

\* error_log of the failure branch
ErrorLog(rom, exists) ==
    IF rom /\ exists THEN "out/error.log" ELSE "build.log"

\* a plausible slip: the line is put in front of what the file holds
WriteLineInFront(f, id) ==
    <<id>> \o f

\* sys.stdout.write(line_out) / log.write(line_out): the line as read, at the end
WriteLine(f, id) ==
    Append(f, id)

RegisterSignalHandler ==
    /\ pc = "run_register"
    /\ handler' = TRUE
    /\ pc' = "run_send"
    /\ UNCHANGED <<auxVars, is_rom, use_gofile, runVars, msg_id, remoteMsgs, tgFailed, calls,
                   uploadVars, interrupted, sig, exitCode>>

\* self.msg_id = send_msg(build_start); start_time = time.time().  An exception out
\* of send_msg would leave run and main: traceback, exit status 1.
SendStart ==
    /\ pc = "run_send"
    /\ \E r \in TgOutcomes :
        /\ msg_id' = SendMsgId(r, remoteMsgs)
        /\ remoteMsgs' = remoteMsgs + (IF CHAT_ID = "" THEN 0 ELSE r.applied)
        /\ tgFailed' = (tgFailed \/ (CHAT_ID # "" /\ TgFailed(r)))
        /\ pc' = IF r.raised THEN "done" ELSE "run_open"
        /\ exitCode' = IF r.raised THEN 1 ELSE exitCode
    /\ calls' = Append(calls, Call("send", "build_start", 0, CHAT_ID, CHAT_ID # "",
                                   NoStats, 0, "", 0))
    /\ start_time' = clock
    /\ UNCHANGED <<auxVars, is_rom, use_gofile, handler, process, child, produced, out, stdout, log,
                   logOpen, clock, last_update, ninja_started, return_code,
                   error_log_exists, fault, uploadVars, interrupted, sig>>

\* a plausible slip: the child is started before the start message is sent
SpawnBeforeSend ==
    /\ pc = "run_send"
    /\ child = "none"
    /\ logOpen' = TRUE
    /\ log' = <<>>
    /\ child' = "running"
    /\ UNCHANGED <<auxVars, is_rom, use_gofile, pc, handler, process, produced, out, stdout, clock,
                   start_time, last_update, ninja_started, return_code, error_log_exists,
                   fault, tgFailed, msg_id, remoteMsgs, calls, uploadVars, interrupted,
                   sig, exitCode>>

\* open(log_file, "w") and a Popen that has created the child and not yet returned
Spawn ==
    /\ pc = "run_open"
    /\ logOpen' = TRUE
    /\ log' = <<>>
    /\ child' = "running"
    /\ pc' = "run_assign"
    /\ UNCHANGED <<auxVars, is_rom, use_gofile, handler, process, produced, out, stdout, clock,
                   start_time, last_update, ninja_started, return_code, error_log_exists,
                   fault, tgFailed, msg_id, remoteMsgs, calls, uploadVars, interrupted,
                   sig, exitCode>>

\* Popen raises: the with block closes the log, the exception leaves run and main
SpawnFail ==
    /\ pc = "run_open"
    /\ fault' = "spawn"
    /\ logOpen' = FALSE
    /\ log' = <<>>
    /\ pc' = "done"
    /\ exitCode' = 1
    /\ UNCHANGED <<auxVars, is_rom, use_gofile, handler, process, child, produced, out, stdout,
                   clock, start_time, last_update, ninja_started, return_code,
                   error_log_exists, tgFailed, msg_id, remoteMsgs, calls, uploadVars,
                   interrupted, sig>>

\* self.process = <the Popen object>; last_update = 0; ninja_started = not self.is_rom
AssignProcess ==
    /\ pc = "run_assign"
    /\ process' = "child"
    /\ last_update' = 0
    /\ ninja_started' = ~is_rom
    /\ pc' = "run_loop"
    /\ UNCHANGED <<auxVars, is_rom, use_gofile, handler, child, produced, out, stdout, log, logOpen,
                   clock, start_time, return_code, error_log_exists, fault, tgFailed,
                   msg_id, remoteMsgs, calls, uploadVars, interrupted, sig, exitCode>>

\* a plausible slip: the record rendered is the one of the line before, kept from the
\* previous iteration, when that line matched
ConsumeLineStale ==
    /\ pc = "run_loop"
    /\ out # <<>>
    /\ \E d \in Delays :
        LET id == Head(out)
            ln == Lines[id]
            now == clock + d
            gate == GateOpen(ninja_started, is_rom, ln)
            m == RegexSearch(ln)
            prev == IF log # <<>> /\ RegexSearch(Lines[log[Len(log)]]).matched
                    THEN log[Len(log)] ELSE id
            render == IF is_rom
                      THEN m.matched /\ gate /\ CadenceOpen(now, last_update)
                      ELSE CadenceOpen(now, last_update)
        IN  \E r \in (IF render THEN EditOutcomes(msg_id) ELSE {NoTg}) :
            /\ clock' = now
            /\ stdout' = WriteLine(stdout, id)
            /\ log' = WriteLine(log, id)
            /\ out' = Tail(out)
            /\ ninja_started' = gate
            /\ last_update' = IF render /\ ~r.raised THEN now ELSE last_update
            /\ calls' = IF render
                        THEN Append(calls,
                                TimedEdit("build_progress",
                                          IF is_rom
                                          THEN ProgressStats(RegexSearch(Lines[prev]))
                                          ELSE NoStats,
                                          prev, now))
                        ELSE calls
            /\ tgFailed' = (tgFailed \/ TgFailed(r))
            /\ return_code' = IF r.raised THEN 1 ELSE return_code
            /\ logOpen' = ~r.raised
            /\ pc' = IF r.raised THEN "run_post" ELSE pc
    /\ UNCHANGED <<auxVars, is_rom, use_gofile, handler, process, child, produced,
                   start_time, error_log_exists, fault, msg_id, remoteMsgs, uploadVars,
                   interrupted, sig, exitCode>>

\* one iteration of  for line_out in self.process.stdout.  An exception out of
\* edit_msg would be caught by  except Exception:  return_code = 1, the loop and the
\* with block are left.
ConsumeLine ==
    /\ pc = "run_loop"
    /\ out # <<>>
    /\ \E d \in Delays :
        LET id == Head(out)
            ln == Lines[id]
            now == clock + d
            gate == GateOpen(ninja_started, is_rom, ln)
            m == RegexSearch(ln)
            render == IF is_rom
                      THEN m.matched /\ gate /\ CadenceOpen(now, last_update)
                      ELSE CadenceOpen(now, last_update)
        IN  \E r \in (IF render THEN EditOutcomes(msg_id) ELSE {NoTg}) :
            /\ clock' = now
            /\ stdout' = WriteLine(stdout, id)
            /\ log' = WriteLine(log, id)
            /\ out' = Tail(out)
            /\ ninja_started' = gate
            /\ last_update' = IF render /\ ~r.raised THEN now ELSE last_update
            /\ calls' = IF render
                        THEN Append(calls,
                                TimedEdit("build_progress",
                                          IF is_rom THEN ProgressStats(m) ELSE NoStats,
                                          id, now))
                        ELSE calls
            /\ tgFailed' = (tgFailed \/ TgFailed(r))
            /\ return_code' = IF r.raised THEN 1 ELSE return_code
            /\ logOpen' = ~r.raised
            /\ pc' = IF r.raised THEN "run_post" ELSE pc
    /\ UNCHANGED <<auxVars, is_rom, use_gofile, handler, process, child, produced, start_time,
                   error_log_exists, fault, msg_id, remoteMsgs, uploadVars, interrupted,
                   sig, exitCode>>

\* a plausible slip: the log is opened without a with block and closed after the loop
\* only, so that an exception inside the loop leaves it open
LoopRaiseLeaksLog ==
    /\ pc = "run_loop"
    /\ out # <<>>
    /\ \E mirrored \in BOOLEAN :
        stdout' = IF mirrored THEN WriteLine(stdout, Head(out)) ELSE stdout
    /\ out' = Tail(out)
    /\ return_code' = 1
    /\ fault' = "loop"
    /\ \E e \in BOOLEAN : error_log_exists' = e
    /\ pc' = "run_post"
    /\ UNCHANGED <<auxVars, is_rom, use_gofile, handler, process, child, produced, log, logOpen,
                   clock, start_time, last_update, ninja_started, tgFailed, msg_id,
                   remoteMsgs, calls, uploadVars, interrupted, sig, exitCode>>

\* an exception inside the loop: reading the line fails (nothing is written), or
\* log.write fails after sys.stdout.write.  return_code = 1, the child is not waited for.
LoopRaise ==
    /\ pc = "run_loop"
    /\ out # <<>>
    /\ \E mirrored \in BOOLEAN :
        stdout' = IF mirrored THEN WriteLine(stdout, Head(out)) ELSE stdout
    /\ out' = Tail(out)
    /\ return_code' = 1
    /\ fault' = "loop"
    /\ \E e \in BOOLEAN : error_log_exists' = e
    /\ logOpen' = FALSE
    /\ pc' = "run_post"
    /\ UNCHANGED <<auxVars, is_rom, use_gofile, handler, process, child, produced, log, clock,
                   start_time, last_update, ninja_started, tgFailed, msg_id, remoteMsgs,
                   calls, uploadVars, interrupted, sig, exitCode>>

\* end of the child's output and self.process.wait()
ProcessWait ==
    /\ pc = "run_loop"
    /\ out = <<>>
    /\ \E rc \in {0, 1} : return_code' = rc
    /\ \E e \in BOOLEAN : error_log_exists' = e
    /\ child' = "exited"
    /\ logOpen' = FALSE
    /\ pc' = "run_post"
    /\ UNCHANGED <<auxVars, is_rom, use_gofile, handler, process, produced, out, stdout, log, clock,
                   start_time, last_update, ninja_started, fault, tgFailed, msg_id,
                   remoteMsgs, calls, uploadVars, interrupted, sig, exitCode>>

\* edit_msg(build_fail, time=total_duration)
RenderFail ==
    /\ pc = "run_post"
    /\ return_code # 0
    /\ \E r \in EditOutcomes(msg_id) :
        /\ tgFailed' = (tgFailed \/ TgFailed(r))
        /\ pc' = IF r.raised THEN "done" ELSE "run_doc"
        /\ exitCode' = IF r.raised THEN 1 ELSE exitCode
    /\ calls' = Append(calls, TimedEdit("build_fail", NoStats, 0, clock))
    /\ UNCHANGED <<auxVars, is_rom, use_gofile, handler, runVars, msg_id, remoteMsgs, uploadVars,
                   interrupted, sig>>

\* send_doc(error_log, config.ERROR_CHAT_ID); the build log always exists
SendErrorDoc ==
    /\ pc = "run_doc"
    /\ \E r \in DocOutcomes(ERROR_CHAT_ID) :
        /\ tgFailed' = (tgFailed \/ TgFailed(r))
        /\ pc' = IF r.raised THEN "done" ELSE "run_exit"
        /\ exitCode' = IF r.raised THEN 1 ELSE exitCode
    /\ calls' = Append(calls, [Call("send_doc", "doc", 0, ERROR_CHAT_ID,
                                 ERROR_CHAT_ID # "", NoStats, 0,
                                 ErrorLog(is_rom, error_log_exists), 0)
                                 EXCEPT !.base = NoInfo])
    /\ UNCHANGED <<auxVars, is_rom, use_gofile, handler, runVars, msg_id, remoteMsgs, uploadVars,
                   interrupted, sig>>

\* sys.exit(1)
ExitFail ==
    /\ pc = "run_exit"
    /\ exitCode' = 1
    /\ pc' = "done"
    /\ UNCHANGED <<auxVars, is_rom, use_gofile, handler, runVars, msg_id, remoteMsgs, tgFailed,
                   calls, uploadVars, interrupted, sig>>

\* a plausible slip: the uploading render is repeated until the notifier accepts it
RenderSuccessUntilAccepted ==
    /\ pc = "run_post"
    /\ return_code = 0
    /\ \E r \in EditOutcomes(msg_id) :
        /\ r.ok
        /\ tgFailed' = (tgFailed \/ TgFailed(r))
        /\ pc' = IF r.raised THEN "done" ELSE "run_returned"
        /\ exitCode' = IF r.raised THEN 1 ELSE exitCode
    /\ calls' = Append(calls, TimedEdit("uploading", NoStats, 0, clock))
    /\ UNCHANGED <<auxVars, is_rom, use_gofile, handler, runVars, msg_id, remoteMsgs,
                   uploadVars, interrupted, sig>>

\* edit_msg(uploading) with the build time and return final_build_msg, self.msg_id
RenderSuccess ==
    /\ pc = "run_post"
    /\ return_code = 0
    /\ \E r \in EditOutcomes(msg_id) :
        /\ tgFailed' = (tgFailed \/ TgFailed(r))
        /\ pc' = IF r.raised THEN "done" ELSE "run_returned"
        /\ exitCode' = IF r.raised THEN 1 ELSE exitCode
    /\ calls' = Append(calls, TimedEdit("uploading", NoStats, 0, clock))
    /\ UNCHANGED <<auxVars, is_rom, use_gofile, handler, runVars, msg_id, remoteMsgs, uploadVars,
                   interrupted, sig>>

\* ------------------------------------------------------------ SIGINT handler

\* What the handler leaves of the child: with a handle to a live child, terminate(),
\* a second of grace, kill() if poll() still finds it alive; otherwise nothing.
HandlerChild(p, c) ==
    IF p = "child" /\ c = "running" THEN {"terminated", "killed"} ELSE {c}

\* handler(sig, frame) up to sys.exit(0): SystemExit unwinds the main thread, which
\* closes the log file if the with block is active.
SigintHandler ==
    /\ handler
    /\ ~interrupted
    /\ pc \notin {"done", "exit_join"}
    /\ interrupted' = TRUE
    /\ sig' = [pc |-> pc, child |-> child, process |-> process, ncalls |-> Len(calls)]
    /\ \E c \in HandlerChild(process, child) : child' = c
    /\ logOpen' = FALSE
    /\ pc' = "exit_join"
    /\ UNCHANGED <<auxVars, is_rom, use_gofile, handler, process, produced, out, stdout, log, clock,
                   start_time, last_update, ninja_started, return_code, error_log_exists,
                   fault, tgFailed, msg_id, remoteMsgs, calls, uploadVars, exitCode>>

\* SystemExit(0) leaves the program once no executor thread is left to join
ExitInterrupted ==
    /\ pc = "exit_join"
    /\ \A p \in {"pd", "gf"} : tasks[p].st # "running"
    /\ exitCode' = 0
    /\ pc' = "done"
    /\ UNCHANGED <<auxVars, is_rom, use_gofile, handler, runVars, msg_id, remoteMsgs, tgFailed,
                   calls, uploadVars, interrupted, sig>>

\* ------------------------------------------------------- specification: run

Init ==
    /\ is_rom \in BOOLEAN
    /\ use_gofile \in BOOLEAN
    /\ pc = "run_register"
    /\ handler = FALSE
    /\ process = "None"
    /\ child = "none"
    /\ out \in Outputs
    /\ produced = out
    /\ stdout = <<>>
    /\ log = <<>>
    /\ logOpen = FALSE
    /\ msg_id = 0
    /\ remoteMsgs = 0
    /\ clock = Epoch
    /\ start_time = 0
    /\ last_update = 0
    /\ ninja_started = FALSE
    /\ return_code = -1
    /\ error_log_exists = FALSE
    /\ fault = "none"
    /\ tgFailed = FALSE
    /\ calls = <<>>
    /\ files_to_upload = <<>>
    /\ fidx = 0
    /\ tasks = NoTasks
    /\ uploads = [p \in {"pd", "gf"} |-> FALSE]
    /\ buttons_list = <<>>
    /\ main_file_uploaded = FALSE
    /\ attempts = <<>>
    /\ interrupted = FALSE
    /\ sig = NoSig
    /\ exitCode = -1
    /\ info = PlainInfo
    /\ argv = NoArgv
    /\ env = ConfigKeys
    /\ tg = TgIdle

Next ==
    \/ RegisterSignalHandler
    \/ SendStart
    \/ Spawn
    \/ SpawnFail
    \/ AssignProcess
    \/ ConsumeLine
    \/ LoopRaise
    \/ ProcessWait
    \/ RenderFail
    \/ SendErrorDoc
    \/ ExitFail
    \/ RenderSuccess
    \/ SigintHandler
    \/ ExitInterrupted

Spec == Init /\ [][Next]_vars

\* ------------------------------------ build-rom.py main after runner.run()

Providers == {"pd", "gf"}

PrimaryLabel == "Download"

\* files_to_upload as main builds it: the archive, then the recovery zip and the
\* JSON when they exist.
FileLists ==
    {<<"Download">>, <<"Download", "Recovery">>, <<"Download", "JSON">>,
     <<"Download", "Recovery", "JSON">>}

\* glob finds no archive: edit_msg(upload_fail, "No ZIP found.")
MainNoZip ==
    /\ pc = "run_returned"
    /\ \E r \in EditOutcomes(msg_id) :
        /\ tgFailed' = (tgFailed \/ TgFailed(r))
        /\ pc' = IF r.raised THEN "done" ELSE "main_exit"
        /\ exitCode' = IF r.raised THEN 1 ELSE exitCode
    /\ calls' = Append(calls, [Edit("upload_fail", NoStats, 0, 0)
                                 EXCEPT !.note = "No ZIP found."])
    /\ UNCHANGED <<auxVars, is_rom, use_gofile, handler, runVars, msg_id, remoteMsgs, uploadVars,
                   interrupted, sig>>

\* a plausible slip: the branch returns from main instead of exiting with 1
ExitNoZipReturns ==
    /\ pc = "main_exit"
    /\ exitCode' = 0
    /\ pc' = "done"
    /\ UNCHANGED <<auxVars, is_rom, use_gofile, handler, runVars, msg_id, remoteMsgs, tgFailed,
                   calls, uploadVars, interrupted, sig>>

\* sys.exit(1) of the missing-archive branch
ExitNoZip ==
    /\ pc = "main_exit"
    /\ exitCode' = 1
    /\ pc' = "done"
    /\ UNCHANGED <<auxVars, is_rom, use_gofile, handler, runVars, msg_id, remoteMsgs, tgFailed,
                   calls, uploadVars, interrupted, sig>>

\* the archive is found, files_to_upload is built and upload_artifacts is entered
MainStartUpload ==
    /\ pc = "run_returned"
    /\ \E fl \in FileLists : files_to_upload' = fl
    /\ fidx' = 1
    /\ buttons_list' = <<>>
    /\ main_file_uploaded' = FALSE
    /\ attempts' = <<>>
    /\ pc' = "ua_loop"
    /\ UNCHANGED <<auxVars, is_rom, use_gofile, handler, runVars, msg_id, remoteMsgs, tgFailed,
                   calls, tasks, uploads, interrupted, sig, exitCode>>

\* ------------------------------------------- upload_artifacts / upload_all

\* a file that does not exist is skipped
SkipFile ==
    /\ pc = "ua_loop"
    /\ fidx <= Len(files_to_upload)
    /\ attempts' = Append(attempts, [label |-> files_to_upload[fidx], skipped |-> TRUE,
                                     ran |-> {}, pd |-> FALSE, gf |-> FALSE])
    /\ fidx' = fidx + 1
    /\ UNCHANGED <<auxVars, is_rom, use_gofile, pc, handler, runVars, msg_id, remoteMsgs, tgFailed,
                   calls, files_to_upload, tasks, uploads, buttons_list,
                   main_file_uploaded, interrupted, sig, exitCode>>

\* upload_all: executor.submit(upload_pd), executor.submit(upload_gofile) if use_gofile
SubmitUploads ==
    /\ pc = "ua_loop"
    /\ fidx <= Len(files_to_upload)
    /\ tasks' = [p \in Providers |->
                   IF p = "pd" \/ use_gofile
                   THEN [st |-> "running", link |-> FALSE]
                   ELSE [st |-> "none", link |-> FALSE]]
    /\ uploads' = [p \in Providers |-> FALSE]
    /\ pc' = "ua_join"
    /\ UNCHANGED <<auxVars, is_rom, use_gofile, handler, runVars, msg_id, remoteMsgs, tgFailed,
                   calls, files_to_upload, fidx, buttons_list, main_file_uploaded,
                   attempts, interrupted, sig, exitCode>>

\* a plausible slip: the worker reports its result in the status message itself
TaskFinishReports(p) ==
    /\ tasks[p].st = "running"
    /\ \E link \in BOOLEAN : tasks' = [tasks EXCEPT ![p] = [st |-> "done", link |-> link]]
    /\ calls' = Append(calls, Edit("uploading", NoStats, 0, 0))
    /\ UNCHANGED <<auxVars, is_rom, use_gofile, pc, handler, runVars, msg_id, remoteMsgs, tgFailed,
                   files_to_upload, fidx, uploads, buttons_list, main_file_uploaded,
                   attempts, interrupted, sig, exitCode>>

\* upload_pd / upload_gofile return in their worker thread: a link, or None after a
\* network error, a timeout or a status that is not a success
TaskFinish(p) ==
    /\ tasks[p].st = "running"
    /\ \E link \in BOOLEAN : tasks' = [tasks EXCEPT ![p] = [st |-> "done", link |-> link]]
    /\ UNCHANGED <<auxVars, is_rom, use_gofile, pc, handler, runVars, msg_id, remoteMsgs, tgFailed,
                   calls, files_to_upload, fidx, uploads, buttons_list,
                   main_file_uploaded, attempts, interrupted, sig, exitCode>>

\* a plausible slip: only the first future is waited for
JoinedFirstOnly(t) ==
    t["pd"].st = "done"

\* future_pd.result(), future_gf.result() and the exit of the executor's with block
\* return once every submitted task has finished
Joined(t) ==
    \A p \in Providers : t[p].st # "running"

\* a plausible slip: a failure of the first provider discards the second one's link
CollectDropsSibling(t) ==
    [p \in Providers |-> t[p].st = "done" /\ t[p].link /\ t["pd"].link]

\* results of upload_all: each provider's link, None (FALSE) without one
CollectResults(t) ==
    [p \in Providers |-> t[p].st = "done" /\ t[p].link]

\* a plausible slip: the second provider's button is added only without the first
ButtonRowOneLink(label, up) ==
    IF up["pd"] THEN <<[text |-> label, provider |-> "pd"]>>
    ELSE IF up["gf"] THEN <<[text |-> label, provider |-> "gf"]>> ELSE <<>>

\* current_row of one file
ButtonRow(label, up) ==
    (IF up["pd"] THEN <<[text |-> label, provider |-> "pd"]>> ELSE <<>>)
    \o (IF up["gf"] THEN <<[text |-> label, provider |-> "gf"]>> ELSE <<>>)

\* a plausible slip: the comparison with final_zip is left out
MainUploadedAnyFile(prev, label, up) ==
    prev \/ up["pd"] \/ up["gf"]

\* main_file_uploaded after one file
MainUploaded(prev, label, up) ==
    prev \/ (label = PrimaryLabel /\ (up["pd"] \/ up["gf"]))

\* upload_all returns and upload_artifacts folds its results into the buttons
CollectUploads ==
    /\ pc = "ua_join"
    /\ Joined(tasks)
    /\ LET up == CollectResults(tasks)
           label == files_to_upload[fidx]
           row == ButtonRow(label, up)
       IN  /\ uploads' = up
           /\ buttons_list' = IF row # <<>> THEN Append(buttons_list, row) ELSE buttons_list
           /\ main_file_uploaded' = MainUploaded(main_file_uploaded, label, up)
           /\ attempts' = Append(attempts,
                                 [label |-> label, skipped |-> FALSE,
                                  ran |-> {p \in Providers : tasks[p].st # "none"},
                                  pd |-> tasks["pd"].st = "done" /\ tasks["pd"].link,
                                  gf |-> tasks["gf"].st = "done" /\ tasks["gf"].link])
    /\ fidx' = fidx + 1
    /\ pc' = "ua_loop"
    /\ UNCHANGED <<auxVars, is_rom, use_gofile, handler, runVars, msg_id, remoteMsgs, tgFailed,
                   calls, files_to_upload, tasks, interrupted, sig, exitCode>>

\* the primary artifact has no link: edit_msg(upload_fail) and return
ReportUploadFail ==
    /\ pc = "ua_loop"
    /\ fidx > Len(files_to_upload)
    /\ ~main_file_uploaded
    /\ \E r \in EditOutcomes(msg_id) :
        /\ tgFailed' = (tgFailed \/ TgFailed(r))
        /\ pc' = IF r.raised THEN "done" ELSE "main_return"
        /\ exitCode' = IF r.raised THEN 1 ELSE exitCode
    /\ calls' = Append(calls, [Edit("upload_fail", NoStats, 0, 0)
                                 EXCEPT !.note = "Could not upload files."])
    /\ UNCHANGED <<auxVars, is_rom, use_gofile, handler, runVars, msg_id, remoteMsgs, uploadVars,
                   interrupted, sig>>

\* edit_msg(final_msg, buttons=buttons_list): final_build_msg with the build time, the
\* name, the size and the checksum of final_zip
ReportUploadDone ==
    /\ pc = "ua_loop"
    /\ fidx > Len(files_to_upload)
    /\ main_file_uploaded
    /\ \E r \in EditOutcomes(msg_id) :
        /\ tgFailed' = (tgFailed \/ TgFailed(r))
        /\ pc' = IF r.raised THEN "done" ELSE "main_return"
        /\ exitCode' = IF r.raised THEN 1 ELSE exitCode
    /\ calls' = Append(calls, [Edit("final_msg", NoStats, 0, Len(buttons_list))
                                 EXCEPT !.elapsed = FmtTime(clock - start_time),
                                        !.file = "final_zip"])
    /\ UNCHANGED <<auxVars, is_rom, use_gofile, handler, runVars, msg_id, remoteMsgs, uploadVars,
                   interrupted, sig>>

\* upload_artifacts has returned None and main ends: the interpreter exits with 0
MainReturn ==
    /\ pc = "main_return"
    /\ exitCode' = 0
    /\ pc' = "done"
    /\ UNCHANGED <<auxVars, is_rom, use_gofile, handler, runVars, msg_id, remoteMsgs, tgFailed,
                   calls, uploadVars, interrupted, sig>>

\* ---------------------------------------------------- specification: upload

\* runner.run() has returned to build-rom.py main: a build without output whose
\* child exited with 0, the start message sent or not.
InitUpload ==
    /\ info = PlainInfo
    /\ argv = NoArgv
    /\ env = ConfigKeys
    /\ tg = TgIdle
    /\ is_rom = TRUE
    /\ use_gofile \in BOOLEAN
    /\ pc = "run_returned"
    /\ handler = TRUE
    /\ process = "child"
    /\ child = "exited"
    /\ produced = <<>>
    /\ out = <<>>
    /\ stdout = <<>>
    /\ log = <<>>
    /\ logOpen = FALSE
    /\ msg_id \in {0, 1}
    /\ remoteMsgs = msg_id
    /\ clock = Epoch
    /\ start_time = Epoch
    /\ last_update = 0
    /\ ninja_started = FALSE
    /\ return_code = 0
    /\ error_log_exists = FALSE
    /\ fault = "none"
    /\ tgFailed = (msg_id = 0)
    /\ calls = <<Call("send", "build_start", 0, CHAT_ID, CHAT_ID # "", NoStats, 0, "", 0),
                 TimedEdit("uploading", NoStats, 0, clock)>>
    /\ files_to_upload = <<>>
    /\ fidx = 0
    /\ tasks = NoTasks
    /\ uploads = [p \in Providers |-> FALSE]
    /\ buttons_list = <<>>
    /\ main_file_uploaded = FALSE
    /\ attempts = <<>>
    /\ interrupted = FALSE
    /\ sig = NoSig
    /\ exitCode = -1

NextUpload ==
    \/ MainNoZip
    \/ ExitNoZip
    \/ MainStartUpload
    \/ SkipFile
    \/ SubmitUploads
    \/ TaskFinish("pd")
    \/ TaskFinish("gf")
    \/ CollectUploads
    \/ ReportUploadFail
    \/ ReportUploadDone
    \/ MainReturn
    \/ SigintHandler
    \/ ExitInterrupted

SpecUpload == InitUpload /\ [][NextUpload]_vars

\* the states SpecUpload starts from are states BuildRunner.run ends in
NotAtUploadEntry == ~InitUpload

\* ------------------------------------- specification: build-rom.py, run to exit

\* outputs of the ROM builds followed from the start of run to the exit of main
FlowOutputs == {<<>>, <<1, 3>>, <<5>>}

InitFlow ==
    /\ Init
    /\ is_rom
    /\ out \in FlowOutputs

NextFlow ==
    \/ RegisterSignalHandler
    \/ SendStart
    \/ Spawn
    \/ SpawnFail
    \/ AssignProcess
    \/ ConsumeLine
    \/ LoopRaise
    \/ ProcessWait
    \/ RenderFail
    \/ SendErrorDoc
    \/ ExitFail
    \/ RenderSuccess
    \/ MainNoZip
    \/ ExitNoZip
    \/ MainStartUpload
    \/ SkipFile
    \/ SubmitUploads
    \/ TaskFinish("pd")
    \/ TaskFinish("gf")
    \/ CollectUploads
    \/ ReportUploadFail
    \/ ReportUploadDone
    \/ MainReturn
    \/ SigintHandler
    \/ ExitInterrupted

SpecFlow == InitFlow /\ [][NextFlow]_vars

\* ------------------------------ specification: the renders of a ROM build

\* static values as the environment and the build system supply them
InfoChoices ==
    {PlainInfo,
     [PlainInfo EXCEPT !.rom = <<"<", "b", ">">>],
     [PlainInfo EXCEPT !.device = <<"a", "&", "b">>, !.build_id = <<"x", "<", "y">>]}

\* outputs with the marker, progress lines within and beyond the cadence window, and
\* an ETA text with a character of the markup
RenderOutputs == {<<1, 3, 4, 6>>, <<1, 4, 2, 3>>, <<1, 6>>, <<6, 1>>}

InitRender ==
    /\ is_rom = TRUE
    /\ use_gofile = FALSE
    /\ pc = "run_register"
    /\ handler = FALSE
    /\ process = "None"
    /\ child = "none"
    /\ out \in RenderOutputs
    /\ produced = out
    /\ stdout = <<>>
    /\ log = <<>>
    /\ logOpen = FALSE
    /\ msg_id = 0
    /\ remoteMsgs = 0
    /\ clock = Epoch
    /\ start_time = 0
    /\ last_update = 0
    /\ ninja_started = FALSE
    /\ return_code = -1
    /\ error_log_exists = FALSE
    /\ fault = "none"
    /\ tgFailed = FALSE
    /\ calls = <<>>
    /\ files_to_upload = <<>>
    /\ fidx = 0
    /\ tasks = NoTasks
    /\ uploads = [p \in Providers |-> FALSE]
    /\ buttons_list = <<>>
    /\ main_file_uploaded = FALSE
    /\ attempts = <<>>
    /\ interrupted = FALSE
    /\ sig = NoSig
    /\ exitCode = -1
    /\ info \in InfoChoices
    /\ argv = NoArgv
    /\ env = ConfigKeys
    /\ tg = TgIdle

SpecRender == InitRender /\ [][Next]_vars

\* ------------------------------------------- specification: run, with progress

\* builds of both modes without output, with one line and with two
InitLive ==
    /\ Init
    /\ out \in FlowOutputs

\* a step of the main thread between the spawn and the terminal render: the program
\* keeps running, and a child that closes its output and exits lets the loop read
\* each of its lines and the end of the stream
RunStep ==
    \/ AssignProcess
    \/ LoopRaise
    \/ ConsumeLine
    \/ ProcessWait
    \/ RenderFail
    \/ RenderSuccess

SpecLive == InitLive /\ [][Next]_vars /\ WF_vars(RunStep)

\* ------------------------------------------ specification: one call of tg_req

\* Every variable of a program that has not started, given its mode, the output its
\* child will write, its static values, its command line, its environment and the
\* call of tg_req that is followed.
AtRest(rom, o, v, a, e, t) ==
    /\ is_rom = rom
    /\ use_gofile = FALSE
    /\ handler = FALSE
    /\ process = "None"
    /\ child = "none"
    /\ out = o
    /\ produced = o
    /\ stdout = <<>>
    /\ log = <<>>
    /\ logOpen = FALSE
    /\ msg_id = 0
    /\ remoteMsgs = 0
    /\ clock = Epoch
    /\ start_time = 0
    /\ last_update = 0
    /\ ninja_started = FALSE
    /\ return_code = -1
    /\ error_log_exists = FALSE
    /\ fault = "none"
    /\ tgFailed = FALSE
    /\ calls = <<>>
    /\ files_to_upload = <<>>
    /\ fidx = 0
    /\ tasks = NoTasks
    /\ uploads = [p \in Providers |-> FALSE]
    /\ buttons_list = <<>>
    /\ main_file_uploaded = FALSE
    /\ attempts = <<>>
    /\ interrupted = FALSE
    /\ sig = NoSig
    /\ exitCode = -1
    /\ info = v
    /\ argv = a
    /\ env = e
    /\ tg = t

\* everything but tg
progVars ==
    <<info, argv, env, is_rom, use_gofile, pc, handler, runVars, msg_id, remoteMsgs,
      tgFailed, calls, uploadVars, interrupted, sig, exitCode>>

\* a plausible slip: any answer of the server ends the loop, whatever its status
TgStopsOnAnyAnswer(o) ==
    o \in {"ok200", "http_err"}

\* r.status_code == 200: return r.json()
TgStops(o) ==
    o = "ok200"

\* if not config.BOT_TOKEN: return {}; otherwise the loop is entered
TgEnter ==
    /\ tg.st = "called"
    /\ tg' = IF BOT_TOKEN = ""
             THEN [tg EXCEPT !.st = "returned"]
             ELSE [tg EXCEPT !.st = "loop"]
    /\ UNCHANGED progVars

\* one iteration of  for attempt in range(retries): the POST, then the return of its
\* answer, or the print of the status, or the print of the exception and sleep(2)
TgPost ==
    /\ tg.st = "loop"
    /\ tg.n < Retries
    /\ LET o == tg.resp[tg.n + 1] IN
        tg' = [tg EXCEPT !.n = tg.n + 1,
                         !.posts = Append(tg.posts, o),
                         !.ok = TgStops(o),
                         !.st = IF TgStops(o) THEN "returned" ELSE "loop"]
    /\ UNCHANGED progVars

\* the loop has made its last iteration: return {}
TgGiveUp ==
    /\ tg.st = "loop"
    /\ tg.n >= Retries
    /\ tg' = [tg EXCEPT !.st = "returned"]
    /\ UNCHANGED progVars

InitTg ==
    /\ pc = "tg_req"
    /\ \E resp \in Responses :
        AtRest(FALSE, <<>>, PlainInfo, NoArgv, ConfigKeys,
               [st |-> "called", resp |-> resp, n |-> 0, posts |-> <<>>, ok |-> FALSE])

NextTg ==
    \/ TgEnter
    \/ TgPost
    \/ TgGiveUp

SpecTg == InitTg /\ [][NextTg]_vars

\* ------------------------------------------------------------ observations

ProgressIdx == {i \in 1..Len(calls) : calls[i].kind = "build_progress"}

KindIdx(k) == {i \in 1..Len(calls) : calls[i].kind = k}

\* where the main thread stands, or stood when the interrupt handler took over
Pos == IF interrupted THEN sig.pc ELSE pc

\* upload_artifacts has processed every file and reported
UploadReported == Pos \in {"main_return", "done"} /\ files_to_upload # <<>>

\* providers that returned a link for the primary artifact
PrimaryLinks ==
    {p \in Providers : \E i \in 1..Len(attempts) :
        /\ attempts[i].label = PrimaryLabel
        /\ ~attempts[i].skipped
        /\ attempts[i][p]}

\* buttons of the final message that belong to the primary artifact
PrimaryButtons ==
    {<<r, b>> \in (1..Len(buttons_list)) \X (1..2) :
        /\ b <= Len(buttons_list[r])
        /\ buttons_list[r][b].text = PrimaryLabel}

EnabledProviders == IF use_gofile THEN {"pd", "gf"} ELSE {"pd"}

S45 == <<"4", "5", "%">>

S1200of2669 == <<"1", "2", "0", "0", "/", "2", "6", "6", "9">>

S12mins == <<"1", "2", " ", "m", "i", "n", "s">>

\* ------------------------------------------------------------------ claims

\* C1 (as the claim states it): once upload_artifacts has processed every file and the
\* primary artifact has no link from any provider, the last render is the
\* upload-failure variant and the program ends with a non-zero exit status.
C1_PrimaryFailureExitsNonZero ==
    (UploadReported /\ ~interrupted /\ pc = "done" /\ PrimaryLinks = {})
        => (calls[Len(calls)].kind = "upload_fail" /\ exitCode # 0)

\* C2: in a run that no interrupt ends, once the child has exited with a non-zero
\* status the upload phase is never entered; the build-failure render is issued at
\* once, whatever the time since the last render; then one document goes to the error
\* destination (out/error.log if the run is a ROM run and the file exists, the build
\* log otherwise), and the program exits with status 1.
C2_FailedRun ==
    (~interrupted /\ child = "exited" /\ return_code > 0) =>
        /\ pc \in {"run_post", "run_doc", "run_exit", "done"}
        /\ KindIdx("uploading") = {} /\ KindIdx("upload_fail") = {}
        /\ KindIdx("final_msg") = {}
        /\ pc = "run_post" => KindIdx("build_fail") = {} /\ KindIdx("doc") = {}
        /\ pc = "run_doc" =>
            /\ calls[Len(calls)].kind = "build_fail"
            /\ calls[Len(calls)].op = "edit"
            /\ calls[Len(calls)].t = clock
            /\ KindIdx("doc") = {}
        /\ pc \in {"run_exit", "done"} =>
            /\ Len(calls) >= 2
            /\ calls[Len(calls) - 1].kind = "build_fail"
            /\ calls[Len(calls)].op = "send_doc"
            /\ calls[Len(calls)].chat = ERROR_CHAT_ID
            /\ calls[Len(calls)].posted
            /\ calls[Len(calls)].file =
                 (IF is_rom /\ error_log_exists THEN "out/error.log" ELSE "build.log")
            /\ Cardinality(KindIdx("doc")) = 1
            /\ Cardinality(KindIdx("build_fail")) = 1
        /\ pc = "done" => exitCode = 1

\* C2 witness: a failed run has ended with status 1; the failure render followed a
\* progress render within the cadence window and out/error.log went to the error chat.
C2_Witness ==
    /\ ~interrupted /\ child = "exited" /\ return_code = 1 /\ pc = "done" /\ exitCode = 1
    /\ \E i \in ProgressIdx : calls[i].t = clock
    /\ calls[Len(calls)].file = "out/error.log"

\* C3 (as the claim states it): an interrupt that finds the child spawned and not yet
\* exited leaves it terminated or killed, the log file closed, and no notifier call
\* is made after it.
C3_InterruptStopsChild ==
    (interrupted /\ sig.child = "running") =>
        /\ child \in {"terminated", "killed"}
        /\ ~logOpen
        /\ Len(calls) = sig.ncalls

C5_GateClosed ==
    (is_rom /\ ~\E k \in 1..Len(log) : Contains(LineTable[log[k]], MARKER))
        => (ProgressIdx = {} /\ ~ninja_started)

\* C5 witness: a ROM run consumed a line of the progress shape, well after the
\* cadence window, never saw the marker and has issued its terminal render.
C5_Witness ==
    /\ is_rom /\ ~interrupted /\ pc = "run_returned"
    /\ ~\E k \in 1..Len(log) : Contains(LineTable[log[k]], MARKER)
    /\ \E k \in 1..Len(log) : RegexSearch(LineTable[log[k]]).matched
    /\ clock - last_update > CadenceWindow
    /\ ProgressIdx = {}

C7_OneRemoteMessage ==
    /\ remoteMsgs <= 1
    /\ \A i \in 1..Len(calls) : calls[i].op = "send" <=> i = 1
    /\ \A i \in 1..Len(calls) : calls[i].op = "edit" => calls[i].id = msg_id

\* C8: the final render is the success variant exactly when at least one provider
\* returned a link for the primary artifact, the failure variant exactly when none
\* did, and the primary artifact has one button per provider that returned a link.
C8_UploadResult ==
    UploadReported =>
        /\ calls[Len(calls)].kind = "final_msg" <=> PrimaryLinks # {}
        /\ calls[Len(calls)].kind = "upload_fail" <=> PrimaryLinks = {}
        /\ Cardinality(PrimaryButtons) = Cardinality(PrimaryLinks)

\* C8 witness: one provider failed and one succeeded for the primary artifact, every
\* provider failed for a secondary one, and the final render is the success variant.
C8_Witness ==
    /\ UploadReported /\ pc = "done"
    /\ Cardinality(PrimaryLinks) = 1 /\ Cardinality(PrimaryButtons) = 1
    /\ \E i \in 1..Len(attempts) :
        /\ attempts[i].label # PrimaryLabel /\ attempts[i].ran = {"pd", "gf"}
        /\ ~attempts[i].pd /\ ~attempts[i].gf
    /\ calls[Len(calls)].kind = "final_msg"

\* C9: what upload_all hands back for a file is, per provider, exactly what that
\* provider's task returned, whatever the other task returned; every link has its
\* button; and every file of files_to_upload is processed, each existing one by every
\* enabled provider.
C9_FailureIsLocal ==
    /\ Pos # "ua_join" =>
        \A p \in Providers : uploads[p] = (tasks[p].st = "done" /\ tasks[p].link)
    /\ \A i \in 1..Len(attempts) : \A p \in Providers :
        (~attempts[i].skipped /\ attempts[i][p]) <=>
            \E r \in 1..Len(buttons_list) : \E b \in 1..Len(buttons_list[r]) :
                buttons_list[r][b] = [text |-> attempts[i].label, provider |-> p]
    /\ \A i \in 1..Len(attempts) :
        /\ attempts[i].label = files_to_upload[i]
        /\ ~attempts[i].skipped => attempts[i].ran = EnabledProviders
    /\ UploadReported => Len(attempts) = Len(files_to_upload)

\* C9 witness: the first provider failed for the first file, the second provider's
\* link for it was kept, and a later file was uploaded after a file no provider took.
C9_Witness ==
    /\ UploadReported
    /\ ~attempts[1].skipped /\ ~attempts[1].pd /\ attempts[1].gf
    /\ \E i \in 2..Len(attempts) : \E j \in 2..Len(attempts) :
        /\ i < j
        /\ ~attempts[i].skipped /\ ~attempts[i].pd /\ ~attempts[i].gf
        /\ ~attempts[j].skipped /\ attempts[j].pd

\* C10: an upload task is in flight only while upload_all waits for its tasks (or
\* while an interrupted program waits for them before it exits): none is running
\* when results are folded, the next file is started or the final render is issued.
C10_JoinBeforeProceeding ==
    (\E p \in Providers : tasks[p].st = "running") =>
        /\ pc \in {"ua_join", "exit_join"}
        /\ Pos = "ua_join"

\* C10 witness: both tasks of one file run at once.
C10_Witness ==
    /\ pc = "ua_join"
    /\ tasks["pd"].st = "running" /\ tasks["gf"].st = "running"


\* lines the loop of run has taken from the child
Consumed == SubSeq(produced, 1, Len(produced) - Len(out))

\* the main thread is, or was when interrupted, past the with block of run
PastLoop ==
    Pos \notin {"run_register", "run_send", "run_open", "run_assign", "run_loop"}

\* the terminal renders of run
TerminalIdx == KindIdx("build_fail") \cup KindIdx("uploading")

\* What a program that has ended was bound to end with, given what happened outside
\* the notifier: the exit status and the kind of the last notifier call.
ExpectedExit ==
    IF fault # "none" \/ return_code # 0 \/ files_to_upload = <<>> THEN 1 ELSE 0

ExpectedLast ==
    IF fault = "spawn" THEN "build_start"
    ELSE IF return_code # 0 THEN "doc"
    ELSE IF files_to_upload = <<>> \/ ~main_file_uploaded THEN "upload_fail"
    ELSE "final_msg"

\* C11: whatever the notifier calls came back with, a program no interrupt ended has
\* consumed, logged and mirrored every line of its child unless the loop itself
\* failed, has waited for the child, and has ended with the exit status and the last
\* render that the spawn, the loop, the child's status, the presence of the archive
\* and the providers' results determine.
C11_NotificationsDoNotSteer ==
    ~interrupted =>
        /\ (fault = "none" /\ PastLoop) =>
            /\ child = "exited" /\ out = <<>>
            /\ log = produced /\ stdout = produced
        /\ pc = "done" =>
            /\ exitCode = ExpectedExit
            /\ calls[Len(calls)].kind = ExpectedLast

\* C11 witness: the start message was sent, a later notifier call failed after all its
\* attempts, and the build with a progress render ended uploaded, with status 0.
C11_Witness ==
    /\ ~interrupted /\ pc = "done" /\ exitCode = 0
    /\ tgFailed /\ msg_id # 0
    /\ ProgressIdx # {}
    /\ log = produced
    /\ calls[Len(calls)].kind = "final_msg"

\* C12: when send_msg returned no id, no edit_msg reaches tg_req, none changes the
\* messages at the remote end, and the program ends as C11 states.
C12_EditsWithoutIdAreNoOps ==
    (msg_id = 0 /\ Pos \notin {"run_register", "run_send"}) =>
        /\ \A i \in 1..Len(calls) :
            calls[i].op = "edit" => (calls[i].id = 0 /\ ~calls[i].posted)
        /\ (~interrupted /\ pc = "done") =>
            /\ exitCode = ExpectedExit
            /\ calls[Len(calls)].kind = ExpectedLast

\* C12 witness: without an id, a build with a progress render went through the
\* uploading and the final render and ended with status 0.
C12_Witness ==
    /\ ~interrupted /\ pc = "done" /\ exitCode = 0
    /\ msg_id = 0
    /\ ProgressIdx # {} /\ KindIdx("uploading") # {}
    /\ calls[Len(calls)].kind = "final_msg" /\ ~calls[Len(calls)].posted

\* C13: the log and the standard output hold exactly the lines consumed, as the
\* child wrote them and in its order; the one line at which the loop failed is
\* in neither, or in the standard output only.
C13_LinesLoggedAndMirrored ==
    /\ fault # "loop" => (log = Consumed /\ stdout = Consumed)
    /\ fault = "loop" =>
        /\ log = SubSeq(produced, 1, Len(Consumed) - 1)
        /\ stdout \in {log, Consumed}

\* C13 witness: a ROM run has consumed two different lines, one that opened the gate
\* and was not rendered and one that was rendered; both are in the log and mirrored.
C13_Witness ==
    /\ is_rom /\ pc = "run_returned"
    /\ Len(produced) = 2 /\ produced[1] # produced[2]
    /\ log = produced /\ stdout = produced
    /\ Cardinality(ProgressIdx) = 1

\* C14: the log file is open only between the spawn and the end of the loop: it is
\* closed when the failure render, the failure document or an upload follows, after
\* a spawn failure, after an exception in the loop and after an interrupt; and no
\* line is written to a closed log.
C14_LogReleased ==
    /\ [](logOpen => (pc \in {"run_assign", "run_loop"} /\ KindIdx("doc") = {}
                        /\ files_to_upload = <<>> /\ tasks = NoTasks
                        /\ fault = "none" /\ ~interrupted))
    /\ [][(~logOpen /\ pc # "run_open") => log' = log]_vars

\* C14 witness: the loop failed on the second line and the failure document was sent
\* with the log closed.
C14_Witness ==
    /\ fault = "loop" /\ Len(log) = 1
    /\ KindIdx("doc") # {}
    /\ ~logOpen

\* C15 (as the claim states it): after a spawn failure the program has ended with a
\* non-zero status, the child was never started, and the last render of the status
\* message is a failure render.
C15_SpawnFailureRendered ==
    (fault = "spawn" /\ pc = "done") =>
        /\ exitCode # 0
        /\ child = "none"
        /\ calls[Len(calls)].op = "edit"
        /\ calls[Len(calls)].kind \in {"build_fail", "upload_fail"}

\* C16 (as the claim states it): a status message exists, or a send was made, only
\* for a build whose child has been spawned.
C16_NoMessageWithoutSpawn ==
    (remoteMsgs > 0 \/ calls # <<>>) => child # "none"

\* C16 (amended): the start message is sent before the spawn is attempted: whenever
\* the child has been spawned or the spawn has failed, the one send of the run has
\* been made, as the first call; nothing else is rendered before the child runs.
C16_StartMessageBeforeSpawn ==
    /\ (child # "none" \/ fault = "spawn") =>
        /\ calls # <<>>
        /\ calls[1].op = "send" /\ calls[1].kind = "build_start"
    /\ child = "none" => Len(calls) <= 1

\* C16 witness: the spawn failed and the status message exists at the remote end.
C16_Witness ==
    /\ fault = "spawn" /\ child = "none" /\ pc = "done"
    /\ remoteMsgs = 1 /\ msg_id = 1

\* C17 (as the claim states it): a run that no interrupt ends has, once it is over,
\* issued exactly one terminal render, and every progress render precedes it.
C17_FinalizedExactlyOnce ==
    /\ \A i \in ProgressIdx : \A j \in TerminalIdx : i < j
    /\ Cardinality(TerminalIdx) <= 1
    /\ (~interrupted /\ pc \in {"run_doc", "run_exit", "run_returned", "done"}) =>
        Cardinality(TerminalIdx) = 1

\* the order of the renders of one program: start, progress, terminal, upload result
Stage(k) ==
    IF k = "build_start" THEN 1
    ELSE IF k = "build_progress" THEN 2
    ELSE IF k \in {"build_fail", "uploading"} THEN 3
    ELSE 4

\* C18: the calls of the notifier are made one at a time, by the main thread only, in
\* the order of run and then upload_artifacts: a step that makes a call makes one, is
\* not the interrupt handler's, is not a step of an upload task, and finds no upload
\* task running.
C18_SingleWriter ==
    /\ [](\A i \in 1..Len(calls) : \A j \in 1..Len(calls) :
            i < j => Stage(calls[i].kind) <= Stage(calls[j].kind))
    /\ [][calls' # calls =>
            /\ Len(calls') = Len(calls) + 1
            /\ SubSeq(calls', 1, Len(calls)) = calls
            /\ ~interrupted'
            /\ tasks' = tasks
            /\ \A p \in Providers : tasks[p].st # "running"]_vars

\* C18 witness: a program has ended after both tasks of a file ran; the renders of
\* run and the final render of upload_artifacts are all it has issued.
C18_Witness ==
    /\ ~interrupted /\ pc = "done"
    /\ \E i \in 1..Len(attempts) : attempts[i].ran = {"pd", "gf"}
    /\ ProgressIdx # {}
    /\ Cardinality(KindIdx("uploading")) = 1
    /\ Cardinality(KindIdx("final_msg")) = 1

\* C19: once the child has exited with 0 and run has gone on, the uploading render
\* has been issued, one, at the time the loop ended, carrying the time since
\* start_time; nothing of the upload phase precedes it; and when both providers
\* returned a link for the primary artifact, the last render is the final message
\* with the name, size and checksum of the archive and two buttons for it, and the
\* program ends with status 0.
C19_SuccessThenUpload ==
    /\ (child = "exited" /\ return_code = 0 /\ Pos # "run_post") =>
        /\ Cardinality(KindIdx("uploading")) = 1
        /\ \A i \in KindIdx("uploading") :
            /\ calls[i].op = "edit"
            /\ calls[i].t = clock
            /\ calls[i].elapsed = FmtTime(clock - start_time)
            /\ \A j \in KindIdx("upload_fail") \cup KindIdx("final_msg") : i < j
    /\ (files_to_upload # <<>> \/ tasks # NoTasks \/ attempts # <<>>) =>
        KindIdx("uploading") # {}
    /\ (UploadReported /\ PrimaryLinks = Providers) =>
        /\ calls[Len(calls)].kind = "final_msg"
        /\ calls[Len(calls)].file = "final_zip"
        /\ calls[Len(calls)].elapsed = FmtTime(clock - start_time)
        /\ calls[Len(calls)].buttons = Len(buttons_list)
        /\ Cardinality(PrimaryButtons) = 2
        /\ (~interrupted /\ pc = "done") => exitCode = 0

\* C19 witness: a build that took some time ended with both links for the primary
\* artifact and status 0.
C19_Witness ==
    /\ ~interrupted /\ pc = "done" /\ exitCode = 0
    /\ PrimaryLinks = Providers
    /\ clock > start_time
    /\ calls[Len(calls)].kind = "final_msg"

\* C20: when run has returned and main finds no archive, the status message is
\* edited to the upload-failure variant with the reason "No ZIP found.", no file is
\* handed to a provider, and the program exits with status 1.
C20_NoArchiveIsFatal ==
    (~interrupted /\ fault = "none" /\ return_code = 0 /\ files_to_upload = <<>>
        /\ pc \in {"main_exit", "done"}) =>
        /\ calls[Len(calls)].op = "edit"
        /\ calls[Len(calls)].kind = "upload_fail"
        /\ calls[Len(calls)].note = "No ZIP found."
        /\ calls[Len(calls)].id = msg_id
        /\ tasks = NoTasks /\ attempts = <<>>
        /\ pc = "done" => exitCode = 1

\* C20 witness: a build with output has succeeded and the program has ended without
\* an archive.
C20_Witness ==
    /\ ~interrupted /\ pc = "done" /\ return_code = 0 /\ child = "exited"
    /\ files_to_upload = <<>>
    /\ produced # <<>>
    /\ exitCode = 1

\* html.escape of one character
EscapeChar(c) ==
    IF c = "&" THEN <<"&", "a", "m", "p", ";">>
    ELSE IF c = "<" THEN <<"&", "l", "t", ";">>
    ELSE IF c = ">" THEN <<"&", "g", "t", ";">>
    ELSE IF c = "\"" THEN <<"&", "q", "u", "o", "t", ";">>
    ELSE IF c = "'" THEN <<"&", "#", "x", "2", "7", ";">>
    ELSE <<c>>

\* html.escape(str(value)) of utils.line
RECURSIVE Escape(_)
Escape(s) ==
    IF s = <<>> THEN <<>> ELSE EscapeChar(Head(s)) \o Escape(Tail(s))

\* C21 (as the claim states it): in every send and edit of a ROM build, each static
\* value of the info block is the escaped form of the value supplied, and the ETA of
\* a progress render is the escaped form of the cleaned ETA text of its line.
C21_ValuesEscaped ==
    \A i \in 1..Len(calls) :
        calls[i].op \in {"send", "edit"} =>
            /\ \A k \in DOMAIN info : calls[i].base[k] = Escape(info[k])
            /\ calls[i].stats.has_eta =>
                calls[i].stats.eta =
                    Escape(CleanTime(RegexSearch(Lines[calls[i].src]).time_left))

\* C22 (as the claim states it): a program that an interrupt ended while the build
\* child was running does not end with exit status 0.
C22_InterruptedBuildExitsNonZero ==
    (interrupted /\ sig.pc \in {"run_assign", "run_loop"} /\ pc = "done") => exitCode # 0

\* s ends with t
EndsWith(s, t) ==
    Len(s) >= Len(t) /\ SubSeq(s, Len(s) - Len(t) + 1, Len(s)) = t

\* the ETA segment without its trailing word "remaining"
FreeText(time_left) ==
    Strip(SubSeq(time_left, 1, Len(time_left) - Len(REMAINING)))

\* C23 (as the claim states it): a progress render of a ROM run has a Remaining field
\* exactly when its line has an ETA segment; the field is the text of the segment
\* without the trailing word "remaining", and never ends with that word.
C23_EtaStripped ==
    \A i \in ProgressIdx :
        is_rom =>
            LET m == RegexSearch(Lines[calls[i].src]) IN
            /\ calls[i].stats.has_eta = m.has_tl
            /\ m.has_tl =>
                /\ calls[i].stats.eta = FreeText(m.time_left)
                /\ ~EndsWith(calls[i].stats.eta, REMAINING)

\* C25 (as the claim states it): once run has issued its terminal render, the child
\* it spawned has exited.
C25_ChildExitedAtTerminal ==
    TerminalIdx # {} => child = "exited"

\* C24: in a ROM run, a step that issues a progress render consumes a line in that
\* very step, with the gate open, and the render shows the record of that line: a
\* record is rendered when its line is consumed or never.
C24_MostRecentWins ==
    [][(is_rom /\ Len(calls') > Len(calls)
            /\ calls'[Len(calls')].kind = "build_progress") =>
        /\ out # <<>> /\ out' = Tail(out)
        /\ log' = Append(log, Head(out))
        /\ ninja_started'
        /\ calls'[Len(calls')].src = Head(out)
        /\ calls'[Len(calls')].stats = ProgressStats(RegexSearch(Lines[Head(out)]))
        /\ RegexSearch(Lines[Head(out)]).matched]_vars

\* C24 witness: after the marker three lines matched; the first and the third were
\* rendered, the second, consumed within the cadence window, never was.
C24_Witness ==
    /\ is_rom /\ produced = <<1, 3, 4, 6>> /\ log = produced
    /\ Cardinality(ProgressIdx) = 2
    /\ \A i \in ProgressIdx : calls[i].src \in {3, 6}
    /\ \E i \in ProgressIdx : calls[i].src = 6
    /\ RegexSearch(Lines[4]).matched

\* C26: once the child is spawned, either an interrupt arrives or run issues its
\* terminal render, whatever the lines of the child and whatever the notifier calls
\* come back with.
C26_RunFinalizes ==
    (child = "running" /\ ~interrupted) ~> (interrupted \/ TerminalIdx # {})

\* C26 witness: a run of two lines whose notifier failed has issued its terminal
\* render without an interrupt.
C26_Witness ==
    /\ ~interrupted /\ TerminalIdx # {}
    /\ Len(log) = 2 /\ child = "exited"
    /\ tgFailed

\* C27: a call of tg_req makes at most Retries POSTs; no POST follows one that was
\* answered with status 200; it returns that answer when there is one, and the empty
\* result, without raising, once Retries POSTs have failed by status or exception.
C27_BoundedAttempts ==
    /\ tg.n = Len(tg.posts) /\ tg.n <= Retries
    /\ \A k \in 1..Len(tg.posts) : tg.posts[k] = tg.resp[k]
    /\ \A k \in 1..(Len(tg.posts) - 1) : tg.posts[k] # "ok200"
    /\ tg.st \in {"idle", "called", "loop", "returned"}
    /\ tg.st = "returned" =>
        /\ tg.ok <=> (tg.posts # <<>> /\ tg.posts[Len(tg.posts)] = "ok200")
        /\ ~tg.ok => (tg.n = Retries /\ \A k \in 1..Retries : tg.posts[k] # "ok200")
        /\ tg.ok = TgReq(tg.resp).ok /\ tg.n = TgReq(tg.resp).attempts
        /\ ~TgReq(tg.resp).raised

\* C27 witness: a call has returned the empty result after a status that is not 200
\* and two exceptions.
C27_Witness ==
    /\ tg.st = "returned" /\ ~tg.ok
    /\ tg.posts = <<"http_err", "exc_lost", "exc_applied">>

\* ------------------------------ specification: build-rom.py up to its build phase

\* what the start of build-rom.py leaves as it is
mainFrame ==
    <<auxVars, is_rom, use_gofile, handler, process, child, produced, out, stdout, log,
      logOpen, clock, start_time, last_update, ninja_started, return_code,
      error_log_exists, msg_id, remoteMsgs, tgFailed, calls, uploadVars, interrupted,
      sig>>

\* if not all([BOT_TOKEN, CHAT_ID, DEVICE, TARGET, BUILD_VARIANT]): sys.exit(1)
CheckConfig ==
    /\ pc = "main_config"
    /\ pc' = IF env = ConfigKeys THEN "main_args" ELSE "done"
    /\ exitCode' = IF env = ConfigKeys THEN exitCode ELSE 1
    /\ fault' = IF env = ConfigKeys THEN fault ELSE "config"
    /\ UNCHANGED mainFrame

\* main: the parser is built and  args = parser.args  is evaluated.  An
\* ArgumentParser has no attribute args: AttributeError leaves main, exit status 1.
ParseArgs ==
    /\ pc = "main_args"
    /\ pc' = "done"
    /\ exitCode' = 1
    /\ fault' = "args"
    /\ UNCHANGED mainFrame

InitMain ==
    /\ pc = "main_config"
    /\ \E a \in [sync : BOOLEAN, clean : BOOLEAN] : \E e \in SUBSET ConfigKeys :
        AtRest(TRUE, <<>>, PlainInfo, a, e, TgIdle)

NextMain ==
    \/ CheckConfig
    \/ ParseArgs

SpecMain == InitMain /\ [][NextMain]_vars

\* C28 (as the claim states it): a program with its configuration set does not end
\* before BuildRunner.run was entered, whatever its --sync and --clean flags: its
\* argument handling does not fail.
C28_BuildPhaseReached ==
    (pc = "done" /\ env = ConfigKeys) => (fault # "args" /\ handler)

\* ------------------------------------------------ specification: build-bot.py

BotCadenceWindow == 20

\* edit_msg of build-bot.py reaches tg_req only with a message id
BotEdit(kind, stats, src) ==
    [Call("edit", kind, msg_id, CHAT_ID, msg_id # 0, stats, src, "", 0)
        EXCEPT !.base = [k \in DOMAIN info |-> Escape(info[k])]]

\* what the interrupt and the steps of main that follow the loop leave as they are
botFrame ==
    <<auxVars, is_rom, use_gofile, handler, process, produced, out, stdout, log, clock,
      start_time, last_update, ninja_started, error_log_exists, fault, msg_id,
      remoteMsgs, tgFailed, uploadVars>>

\* msg_id = send_msg("Compiling ROM..."): one POST, no retry
BotSendStart ==
    /\ pc = "bot_send"
    /\ \E o \in AttemptOutcomes :
        /\ msg_id' = IF o = "ok200" THEN remoteMsgs + 1 ELSE 0
        /\ remoteMsgs' = remoteMsgs + (IF o \in {"ok200", "exc_applied"} THEN 1 ELSE 0)
        /\ tgFailed' = (o # "ok200")
    /\ calls' = Append(calls,
                       [Call("send", "build_start", 0, CHAT_ID, TRUE, NoStats, 0, "", 0)
                           EXCEPT !.base = [k \in DOMAIN info |-> Escape(info[k])]])
    /\ pc' = "bot_open"
    /\ UNCHANGED <<auxVars, is_rom, use_gofile, handler, runVars, uploadVars, interrupted,
                   sig, exitCode>>

\* log_file = open("build.log", "w"); start_time; process = subprocess.Popen(...)
BotSpawn ==
    /\ pc = "bot_open"
    /\ logOpen' = TRUE
    /\ log' = <<>>
    /\ start_time' = clock
    /\ child' = "running"
    /\ process' = "child"
    /\ last_update' = 0
    /\ ninja_started' = FALSE
    /\ pc' = "bot_loop"
    /\ UNCHANGED <<auxVars, is_rom, use_gofile, handler, produced, out, stdout, clock,
                   return_code, error_log_exists, fault, msg_id, remoteMsgs, tgFailed,
                   calls, uploadVars, interrupted, sig, exitCode>>

\* one iteration of  for log_line in process.stdout
BotConsumeLine ==
    /\ pc = "bot_loop"
    /\ out # <<>>
    /\ \E d \in Delays :
        LET id == Head(out)
            ln == Lines[id]
            now == clock + d
            gate == ninja_started \/ Contains(ln, MARKER)
            m == RegexSearch(ln)
            render == m.matched /\ gate /\ now - last_update > BotCadenceWindow
        IN  /\ clock' = now
            /\ stdout' = WriteLine(stdout, id)
            /\ log' = WriteLine(log, id)
            /\ out' = Tail(out)
            /\ ninja_started' = gate
            /\ last_update' = IF render THEN now ELSE last_update
            /\ calls' = IF render
                        THEN Append(calls,
                                [BotEdit("build_progress", ProgressStats(m), id)
                                    EXCEPT !.t = now,
                                           !.elapsed = FmtTime(now - start_time)])
                        ELSE calls
    /\ UNCHANGED <<auxVars, is_rom, use_gofile, pc, handler, process, child, produced,
                   logOpen, start_time, return_code, error_log_exists, fault, msg_id,
                   remoteMsgs, tgFailed, uploadVars, interrupted, sig, exitCode>>

\* the child's output has ended: log_file.close(); return_code = process.wait()
BotLoopEnd ==
    /\ pc = "bot_loop"
    /\ out = <<>>
    /\ logOpen' = FALSE
    /\ child' = "exited"
    /\ \E rc \in {0, 1} : return_code' = rc
    /\ pc' = "bot_post"
    /\ UNCHANGED <<auxVars, is_rom, use_gofile, handler, process, produced, out, stdout,
                   log, clock, start_time, last_update, ninja_started, error_log_exists,
                   fault, msg_id, remoteMsgs, tgFailed, calls, uploadVars, interrupted,
                   sig, exitCode>>

\* return_code != 0: edit_msg("Build Failed"), send_doc, sys.exit(1)
BotFail ==
    /\ pc = "bot_post"
    /\ return_code # 0
    /\ calls' = calls \o <<BotEdit("build_fail", NoStats, 0),
                           [Call("send_doc", "doc", 0, ERROR_CHAT_ID, TRUE, NoStats, 0,
                                 "build.log", 0) EXCEPT !.base = NoInfo]>>
    /\ exitCode' = 1
    /\ pc' = "done"
    /\ UNCHANGED <<botFrame, child, logOpen, return_code, interrupted, sig>>

\* no archive: edit_msg("No ZIP found!"), sys.exit(1)
BotNoZip ==
    /\ pc = "bot_post"
    /\ return_code = 0
    /\ calls' = Append(calls, BotEdit("upload_fail", NoStats, 0))
    /\ exitCode' = 1
    /\ pc' = "done"
    /\ UNCHANGED <<botFrame, child, logOpen, return_code, interrupted, sig>>

\* the archive is there: edit_msg("Uploading..."), the uploads one after the other in
\* the main thread, edit_msg("Build Complete!"), and main returns
BotUpload ==
    /\ pc = "bot_post"
    /\ return_code = 0
    /\ calls' = calls \o <<BotEdit("uploading", NoStats, 0),
                           BotEdit("final_msg", NoStats, 0)>>
    /\ exitCode' = 0
    /\ pc' = "done"
    /\ UNCHANGED <<botFrame, child, logOpen, return_code, interrupted, sig>>

\* SIGINT with Python's default handler: KeyboardInterrupt is raised in the main
\* thread, leaves main and is caught by  except KeyboardInterrupt: print("Aborted.");
\* the program then ends.  Nothing signals the child; the log file object is closed
\* when the frame of main is released.
BotKeyboardInterrupt ==
    /\ pc \in {"bot_send", "bot_open", "bot_loop", "bot_post"}
    /\ ~interrupted
    /\ interrupted' = TRUE
    /\ sig' = [pc |-> pc, child |-> child, process |-> process, ncalls |-> Len(calls)]
    /\ logOpen' = FALSE
    /\ exitCode' = 0
    /\ pc' = "done"
    /\ UNCHANGED <<botFrame, child, return_code, calls>>

InitBot ==
    /\ pc = "bot_send"
    /\ \E o \in Outputs : AtRest(TRUE, o, PlainInfo, NoArgv, ConfigKeys, TgIdle)

NextBot ==
    \/ BotSendStart
    \/ BotSpawn
    \/ BotConsumeLine
    \/ BotLoopEnd
    \/ BotFail
    \/ BotNoZip
    \/ BotUpload
    \/ BotKeyboardInterrupt

SpecBot == InitBot /\ [][NextBot]_vars

\* C29 (as the claim states it): when the interrupt found the build loop of
\* build-bot.py running, the program has ended with the child terminated or killed,
\* the log file closed and no notifier call made after the interrupt.
C29_BotInterruptStopsChild ==
    (interrupted /\ sig.pc = "bot_loop" /\ pc = "done") =>
        /\ child \in {"terminated", "killed"}
        /\ ~logOpen
        /\ Len(calls) = sig.ncalls

====
